---------------------------- MODULE Spec2Model ----------------------------
(***************************************************************************)
(* Model of xsign.py: the signing session sign(opts), its component        *)
(* discovery, the main bundle identifier policy, the identifier mapping    *)
(* table of sign_primary and the job scheduler of the main loop.           *)
(*                                                                         *)
(* Strings are sequences of tokens.  A token is a record so that a token   *)
(* produced by gen_id can stand next to a literal one.                     *)
(***************************************************************************)
EXTENDS Integers, Sequences, FiniteSets, TLC

\* number of components below the main application
MaxNodes == 2
\* most time-outs a build step suffers before it succeeds
MaxFailures == 5

(***************************************************************************)
(* Strings                                                                 *)
(***************************************************************************)
L(s) == [c |-> s, of |-> <<>>, seed |-> <<>>]

Str(ss) == [i \in 1..Len(ss) |-> L(ss[i])]

\* s[n:]
Drop(s, n) == IF n >= Len(s) THEN <<>> ELSE SubSeq(s, n + 1, Len(s))

\* s[:n]
Take(s, n) == IF n >= Len(s) THEN s ELSE SubSeq(s, 1, n)

\* tok in s
Contains(s, tok) == \E i \in 1..Len(s) : s[i] = tok

\* s.find(tok), zero based, -1 when absent
find(s, tok) ==
    IF Contains(s, tok)
    THEN (CHOOSE i \in 1..Len(s) : s[i] = tok /\ \A j \in 1..(i - 1) : s[j] # tok) - 1
    ELSE -1

\* util.gen_id: a deterministic transformation of input_id keyed by seed
gen_id(input_id, seed) == << [c |-> "#", of |-> input_id, seed |-> seed] >>

Dot == Str(<<".">>)
Star == L("*")

(***************************************************************************)
(* State                                                                   *)
(***************************************************************************)
VARIABLES
    opts,                \* SignOpts
    parent, kind,        \* the bundle tree below Payload/*.app (node 0)
    info_id,             \* CFBundleIdentifier of each component's Info.plist
    ents,                \* entitlements codesign dumps for each component
    sc_info,             \* components holding an SC_Info directory
    pc,                  \* position of sign()
    old_main_bundle_id, main_bundle_id,
    bundle_id_txt,       \* content of bundle_id.txt
    log,                 \* messages printed so far
    components, idx,     \* the component list and the loop position in it
    jobs,                \* the jobs dict, keys in insertion order
    keys,                \* jobs still to visit in the running for-loop
    proc,                \* the codesign process of each component
    mappings,            \* identifier mapping table
    comp,                \* what sign_primary computed for each component
    workdir,             \* the session's temporary directory
    observed,            \* components whose non-zero status was read
    original_id,         \* CFBundleIdentifier of every Info.plist as uploaded
    xcode,               \* the authoring tool: "closed" or "open"
    elapsed,             \* time.time() - start_time of the running exec_retry
    fails_left,          \* time-outs the build primitive still has in store
    hang,                \* time-outs of the build primitive before it succeeds
    profiles,            \* the files get_prov_profiles() lists
    retry                \* the running, or last, call of exec_retry

vars == << opts, parent, kind, info_id, ents, sc_info, pc, old_main_bundle_id,
           main_bundle_id, bundle_id_txt, log, components, idx, jobs, keys,
           proc, mappings, comp, workdir, observed, original_id,
           xcode, elapsed, fails_left, hang, profiles, retry >>

oracle_vars == << xcode, elapsed, fails_left, hang, profiles, retry >>

Nodes == 0..MaxNodes
Exts == <<"app", "appex", "framework", "dylib">>
Kinds == {Exts[i] : i \in 1..Len(Exts)}
KindOf(n) == IF n = 0 THEN "app" ELSE kind[n]


(***************************************************************************)
(* Paths and component discovery                                           *)
(***************************************************************************)
\* the suffix of a file name, cut where one suffix extends another
suffix(k) == IF k = "appex" THEN <<"app", "ex">> ELSE <<k>>

\* an extension is named after the entry listed before it, so that a
\* directory can hold X.app next to X.appex; no two names are equal
stem(n) == IF KindOf(n) = "appex" THEN n - 1 ELSE n

\* the last part of a component's path
filename(n) == <<ToString(stem(n)), ".">> \o suffix(KindOf(n))

RECURSIVE Path(_)
\* the parts of a component's path, starting at the main application
Path(n) == IF n = 0 THEN <<filename(0)>> ELSE Append(Path(parent[n]), filename(n))

RECURSIVE str(_)
\* str(path): the parts, each after a separator
str(path) == IF path = <<>> THEN <<>> ELSE <<"/">> \o Head(path) \o str(Tail(path))

\* str(path).startswith(str(component))
relative_to_startswith(path, component) ==
    /\ Len(str(component)) <= Len(str(path))
    /\ SubSeq(str(path), 1, Len(str(component))) = str(component)

\* the arguments of relative_to exchanged
relative_to_swapped(path, component) ==
    /\ Len(path) <= Len(component)
    /\ SubSeq(component, 1, Len(path)) = path

\* path.relative_to(component) does not raise
relative_to(path, component) ==
    /\ Len(component) <= Len(path)
    /\ SubSeq(path, 1, Len(component)) = component

RECURSIVE SortedSeq(_)
SortedSeq(S) ==
    IF S = {} THEN <<>>
    ELSE LET m == CHOOSE x \in S : \A y \in S : x <= y
         IN  <<m>> \o SortedSeq(S \ {m})

\* the entries of a directory in the order scandir lists them
Entries(d) == SortedSeq({n \in 1..MaxNodes : parent[n] = d})

RECURSIVE iterate_directories(_), iterate_all(_)
\* the walk of "**": a directory, then the walk of each of its entries
iterate_directories(d) == <<d>> \o iterate_all(Entries(d))
iterate_all(ds) ==
    IF ds = <<>> THEN <<>>
    ELSE iterate_directories(Head(ds)) \o iterate_all(Tail(ds))

RECURSIVE select_from(_, _)
\* the entries named *.ext of every directory of the walk
select_from(ds, ext) ==
    IF ds = <<>> THEN <<>>
    ELSE SelectSeq(Entries(Head(ds)), LAMBDA n : kind[n] = ext)
            \o select_from(Tail(ds), ext)

\* main_app.glob("**/*.ext")
glob(ext) == select_from(iterate_directories(0), ext)

Reverse(s) == [i \in 1..Len(s) |-> s[Len(s) + 1 - i]]

\* the component list of sign()
component_list ==
    Append(Reverse(glob(Exts[1]) \o glob(Exts[2]) \o glob(Exts[3]) \o glob(Exts[4])), 0)

is_primary(n) == KindOf(n) \in {"appex", "app"}


(***************************************************************************)
(* Main bundle identifier policy                                           *)
(***************************************************************************)
\* opts.bundle_id: None, or a string that may be empty
None == [given |-> FALSE, value |-> <<>>]
Some(v) == [given |-> TRUE, value |-> v]
truthy(b) == b.given /\ b.value # <<>>

\* application-identifier of the entitlements of opts.prov_file
prov_app_id == opts.prov_file.app_id

\* the identifier after the first dot of the credential's application id
strip_team_prefix(app_id) == Drop(app_id, find(app_id, L(".")) + 1)

\* the seed without the team identifier
resolve_main_bundle_id_seed(o, old) ==
    IF o.prov_file.present
    THEN IF ~o.bundle_id.given THEN old
         ELSE IF o.bundle_id.value = <<>>
              THEN IF Contains(strip_team_prefix(o.prov_file.app_id), Star)
                   THEN old
                   ELSE strip_team_prefix(o.prov_file.app_id)
              ELSE o.bundle_id.value
    ELSE IF truthy(o.bundle_id) THEN o.bundle_id.value
         ELSE IF o.encode_ids THEN gen_id(old, old)
              ELSE old

\* no test for a wildcard
resolve_main_bundle_id_wildcard(o, old) ==
    IF o.prov_file.present
    THEN IF ~o.bundle_id.given THEN old
         ELSE IF o.bundle_id.value = <<>>
              THEN strip_team_prefix(o.prov_file.app_id)
              ELSE o.bundle_id.value
    ELSE IF truthy(o.bundle_id) THEN o.bundle_id.value
         ELSE IF o.encode_ids THEN gen_id(old, old \o o.team_id)
              ELSE old

\* main_bundle_id as the if-chain of sign() chooses it
resolve_main_bundle_id(o, old) ==
    IF o.prov_file.present
    THEN IF ~o.bundle_id.given THEN old
         ELSE IF o.bundle_id.value = <<>>
              THEN IF Contains(strip_team_prefix(o.prov_file.app_id), Star)
                   THEN old
                   ELSE strip_team_prefix(o.prov_file.app_id)
              ELSE o.bundle_id.value
    ELSE IF truthy(o.bundle_id) THEN o.bundle_id.value
         ELSE IF o.encode_ids THEN gen_id(old, old \o o.team_id)
              ELSE old

\* the messages the if-chain prints
resolve_messages(o) ==
    IF o.prov_file.present
    THEN IF ~o.bundle_id.given THEN {"Using original bundle id"}
         ELSE IF o.bundle_id.value = <<>>
              THEN {"Using provisioning profile's application id"} \cup
                   (IF Contains(strip_team_prefix(o.prov_file.app_id), Star)
                    THEN {"Provisioning profile is wildcard, using original bundle id"}
                    ELSE {})
              ELSE {"Using custom bundle id"}
    ELSE IF truthy(o.bundle_id) THEN {"Using custom bundle id"}
         ELSE IF o.encode_ids THEN {"Using encoded original bundle id"}
              ELSE {"Using original bundle id"}

\* bundle_id of sign_primary: main_bundle_id, then old_bundle_id cut by length
component_bundle_id(old_bundle_id) ==
    main_bundle_id \o Drop(old_bundle_id, Len(old_main_bundle_id))

(***************************************************************************)
(* Entitlements: a function from key to a list of strings                  *)
(***************************************************************************)
APP_ID == "application-identifier"
TEAM_ID == "com.apple.developer.team-identifier"
GROUPS == "com.apple.security.application-groups"
ICLOUD == "com.apple.developer.icloud-container-identifiers"
UBIQUITY == "com.apple.developer.ubiquity-container-identifiers"
ICLOUD_ENV == "com.apple.developer.icloud-container-environment"
ICLOUD_SERVICES == "com.apple.developer.icloud-services"
APS_ENV == "aps-environment"
GET_TASK_ALLOW == "get-task-allow"

strip_list ==
    { APP_ID, TEAM_ID, GET_TASK_ALLOW,
      "com.apple.developer.in-app-payments",
      "com.apple.developer.mail-client",
      "com.apple.developer.web-browser",
      "com.apple.developer.networking.multicast",
      "com.apple.developer.usernotifications.filtering",
      "com.apple.developer.usernotifications.critical-alerts",
      "com.apple.developer.networking.HotspotHelper",
      "com.apple.managed.vpn.shared",
      "beta-reports-active",
      "com.apple.developer.carplay-messaging",
      "com.apple.developer.pushkit.unrestricted-voip",
      "com.apple.developer.associated-appclip-app-identifiers" }

\* only one of the keys is deleted
Delete_one(e, ks) ==
    IF (DOMAIN e) \cap ks = {} THEN e
    ELSE [k \in (DOMAIN e) \ {CHOOSE x \in (DOMAIN e) \cap ks : TRUE} |-> e[k]]

\* PlistBuddy Delete, check=False
Delete(e, ks) == [k \in (DOMAIN e) \ ks |-> e[k]]

\* PlistBuddy Set, check=False: an absent key stays absent
Set(e, k, v) == IF k \in DOMAIN e THEN [e EXCEPT ![k] = v] ELSE e

\* PlistBuddy Delete then Add
Put(e, k, v) == [x \in (DOMAIN e) \cup {k} |-> IF x = k THEN v ELSE e[x]]

\* d[k] = v on a dict kept as a list of pairs in insertion order
dict_set(d, k, v) ==
    IF \E i \in 1..Len(d) : d[i][1] = k
    THEN [i \in 1..Len(d) |-> IF d[i][1] = k THEN <<k, v>> ELSE d[i]]
    ELSE Append(d, <<k, v>>)

dict_has(d, k) == \E i \in 1..Len(d) : d[i][1] = k
dict_get(d, k) == d[CHOOSE i \in 1..Len(d) : d[i][1] = k][2]

\* the (entitlement, prefix, parents) triples in the order they are remapped
remap_entitlements ==
    << [entitlement |-> GROUPS, prefix |-> Str(<<"group", ".">>), parents |-> {}],
       [entitlement |-> ICLOUD, prefix |-> Str(<<"iCloud", ".">>),
        parents |-> {ICLOUD_ENV, ICLOUD_SERVICES}],
       [entitlement |-> UBIQUITY, prefix |-> Str(<<"iCloud", ".">>), parents |-> {}] >>

\* the seed of an identifier that has no mapping yet
remap_seed(remap_id) ==
    IF truthy(opts.bundle_id) THEN opts.bundle_id.value
    ELSE remap_id \o opts.team_id

\* no look-up of the table, the seed taken from the component at hand
map_id_reseed(m, remap_id) ==
    [k \in (DOMAIN m) \cup {remap_id} |->
        IF k # remap_id THEN m[k]
        ELSE IF opts.encode_ids
             THEN gen_id(remap_id, info_id[components[idx]] \o opts.team_id)
             ELSE remap_id]

\* encode_ids not consulted
map_id_always_encodes(m, remap_id) ==
    IF remap_id \in DOMAIN m THEN m
    ELSE m @@ (remap_id :> gen_id(remap_id, remap_seed(remap_id)))

\* mappings after one pass of the body of "for remap_id in remap_ids"
map_id(m, remap_id) ==
    IF remap_id \in DOMAIN m THEN m
    ELSE IF opts.encode_ids
         THEN m @@ (remap_id :> gen_id(remap_id, remap_seed(remap_id)))
         ELSE m @@ (remap_id :> remap_id)

RECURSIVE map_ids(_, _)
map_ids(m, remap_ids) ==
    IF remap_ids = <<>> THEN m
    ELSE map_ids(map_id(m, Head(remap_ids)), Tail(remap_ids))

RECURSIVE add_patches(_, _, _, _)
add_patches(patches, m, prefix, remap_ids) ==
    IF remap_ids = <<>> THEN patches
    ELSE add_patches(dict_set(patches, prefix \o Head(remap_ids),
                              prefix \o m[Head(remap_ids)]),
                     m, prefix, Tail(remap_ids))

\* the identifiers of one entitlement, the default one included
remap_ids_of(x, r, bundle_id) ==
    LET raw == IF r.entitlement \in DOMAIN x THEN x[r.entitlement] ELSE <<>>
        ids == [i \in 1..Len(raw) |-> Drop(raw[i], Len(r.prefix))]
    IN  IF Len(ids) < 1 /\ \E p \in r.parents : p \in DOMAIN x
        THEN <<bundle_id>>
        ELSE ids

\* one pass of the body of the loop over remap_entitlements;
\* st is [x: entitlements, m: mappings, patches: patches]
remap_entitlement(st, r, bundle_id) ==
    LET ids == remap_ids_of(st.x, r, bundle_id)
        m2 == map_ids(st.m, ids)
    IN  IF Len(ids) < 1 THEN st
        ELSE [ x |-> Put(st.x, r.entitlement,
                         [i \in 1..Len(ids) |-> r.prefix \o m2[ids[i]]]),
               m |-> m2,
               patches |-> add_patches(st.patches, m2, r.prefix, ids) ]

RECURSIVE remap_all(_, _, _)
remap_all(st, rs, bundle_id) ==
    IF rs = <<>> THEN st
    ELSE remap_all(remap_entitlement(st, Head(rs), bundle_id), Tail(rs), bundle_id)


(***************************************************************************)
(* sign_primary                                                            *)
(***************************************************************************)
\* entitlements dumped from a provisioning profile
prov_entitlements(app_id) ==
    (APP_ID :> <<app_id>>) @@ (GET_TASK_ALLOW :> <<Str(<<"true">>)>>)

\* the application identifier is set whatever the credential holds
prov_branch_entitlements_set(bundle_id) ==
    Set(prov_entitlements(prov_app_id), APP_ID, <<opts.team_id \o Dot \o bundle_id>>)

\* entitlements_plist after the credential branch of sign_primary
prov_branch_entitlements(bundle_id) ==
    LET e == prov_entitlements(prov_app_id)
        component_app_id == opts.team_id \o Dot \o bundle_id
    IN  IF prov_app_id = component_app_id \/ Contains(prov_app_id, Star)
        THEN Set(e, APP_ID, <<component_app_id>>)
        ELSE e

prov_branch_messages(bundle_id) ==
    IF prov_app_id = opts.team_id \o Dot \o bundle_id \/ Contains(prov_app_id, Star)
    THEN {}
    ELSE {"WARNING: Provisioning profile's app id does not match component's app id"}

\* old_team_ids read from the dumped entitlements
old_team_ids(x) ==
    (IF TEAM_ID \in DOMAIN x THEN {x[TEAM_ID][1]} ELSE {}) \cup
    (IF APP_ID \in DOMAIN x
     THEN {IF Contains(x[APP_ID][1], L("."))
           THEN Take(x[APP_ID][1], find(x[APP_ID][1], L(".")))
           ELSE x[APP_ID][1]}
     ELSE {})

\* the template project's entitlements before the identifiers are remapped
prepared_entitlements(x) ==
    Set(Set(Delete(x, strip_list),
            ICLOUD_ENV, <<Str(<<"Development">>)>>),
        APS_ENV, <<Str(<<"development">>)>>)

RECURSIVE add_team_patches(_, _)
add_team_patches(patches, teams) ==
    IF teams = <<>> THEN patches
    ELSE add_team_patches(dict_set(patches, Head(teams), opts.team_id), Tail(teams))

\* the orders in which a set of at most two strings can be iterated
Orders(S) ==
    IF S = {} THEN {<<>>}
    ELSE {<<a>> \o (IF S = {a} THEN <<>> ELSE <<CHOOSE b \in S : b # a>>) : a \in S}

\* the Oracle branch up to "Applying patches": entitlements, mappings, patches
oracle_prepare(c, bundle_id, teams) ==
    LET st == remap_all([x |-> prepared_entitlements(ents[c]),
                         m |-> mappings, patches |-> <<>>],
                        remap_entitlements, bundle_id)
    IN  [ x |-> st.x,
          m |-> st.m,
          patches |-> dict_set(dict_set(add_team_patches(st.patches, teams),
                                        info_id[c], bundle_id),
                               old_main_bundle_id, main_bundle_id) ]

\* entitlements dumped from the binary the template project built
built_entitlements(x, bundle_id) ==
    Put(Put(x, APP_ID, <<opts.team_id \o Dot \o bundle_id>>),
        TEAM_ID, <<opts.team_id>>)

\* lines 467-472 on entitlements_plist
task_allow(e) ==
    IF opts.patch_debug
    THEN Put(e, GET_TASK_ALLOW, <<Str(<<"true">>)>>)
    ELSE Delete(e, {GET_TASK_ALLOW})

\* the computed identifier is written whatever the option
final_info_id_computed(old_bundle_id, bundle_id) == bundle_id

\* lines 460-465: the CFBundleIdentifier written to Info.plist
final_info_id(old_bundle_id, bundle_id) ==
    IF opts.force_original_id THEN old_bundle_id ELSE bundle_id

RECURSIVE replace_all(_, _, _)
\* perl s/old/new/g on a string: every occurrence, left to right
replace_all(s, old, new) ==
    IF old = <<>> \/ Len(s) < Len(old) THEN s
    ELSE IF SubSeq(s, 1, Len(old)) = old
         THEN new \o replace_all(Drop(s, Len(old)), old, new)
         ELSE <<Head(s)>> \o replace_all(Tail(s), old, new)

RECURSIVE apply_patches(_, _)
\* lines 425-426: binary_replace for every pair, in the order of the dict
apply_patches(s, patches) ==
    IF patches = <<>> THEN s
    ELSE apply_patches(replace_all(s, Head(patches)[1], Head(patches)[2]), Tail(patches))

\* lines 418-426 on the CFBundleIdentifier of Info.plist
patched_info_id(id, patches) ==
    IF opts.patch_ids THEN apply_patches(id, patches) ELSE id

\* lines 418-426 on xcode_entitlements_plist: every string of the file
patched_entitlements(x, patches) ==
    [k \in DOMAIN x |-> [i \in 1..Len(x[k]) |-> apply_patches(x[k][i], patches)]]

is_distribution == Contains(opts.common_name, L("Distribution"))

(***************************************************************************)
(* exec_retry, xcode_archive, xcode_export                                 *)
(***************************************************************************)
TimeoutSeconds == 20
Deadline == 90
\* a build primitive that times out at every attempt
Forever == 0 - 1

\* an attempt is started only if it could end before the deadline
within_deadline_fit(e) == e + TimeoutSeconds < Deadline

\* the condition of the while loop
within_deadline(e) == e < Deadline

\* every failure is retried
retried_always(cause) == TRUE

\* isinstance(e.__cause__, TimeoutExpired)
retried(cause) == cause = "TimeoutExpired"

open_xcode(x) == "open"

kill_xcode(x) == "closed"

\* the tool is terminated only after a result
kill_on_return(outcome, x) == IF outcome = "result" THEN kill_xcode(x) ELSE x

\* try: return exec_retry(...) finally: kill_xcode(True)
finally_kill(outcome, x) == kill_xcode(x)

\* the provisioning profiles in the well-known location
get_prov_profiles == profiles

\* the profiles are left in place
purge_none(ps) == ps

\* for prov_profile in get_prov_profiles(): os.remove(prov_profile)
purge(ps) == {}

NoRetry ==
    [ name |-> "none", outcome |-> "none", attempted |-> FALSE,
      late |-> FALSE, errored |-> FALSE ]

\* exec_retry is entered
start_retry(name) == [NoRetry EXCEPT !.name = name]

\* an attempt is started
attempt(r) ==
    [r EXCEPT !.attempted = TRUE,
              !.late = @ \/ elapsed >= Deadline]

InRetry == pc \in {"archive", "export"}

\* the profile the step at hand leaves in the well-known location
new_profile == [by |-> components[idx], step |-> pc]
Leftover == [by |-> 0 - 1, step |-> "before"]

(***************************************************************************)
(* Jobs                                                                    *)
(***************************************************************************)
ExitCodes == {0, 1}

\* only a job killed by a signal counts as failed
popen_check_signal(returncode) == returncode < 0

\* popen_check raises
popen_check(returncode) == returncode # 0

NoProc == [st |-> "none", rc |-> 0, checked |-> FALSE, dispatched |-> 0]

\* jobs[component] = pipe
jobs_set(js, c) == IF Contains(js, c) THEN js ELSE Append(js, c)

\* jobs.pop(path)
jobs_pop(js, c) == SelectSeq(js, LAMBDA k : k # c)


(***************************************************************************)
(* Inputs                                                                  *)
(***************************************************************************)
MainId == Str(<<"com", ".", "a">>)
ExtId == Str(<<"com", ".", "a", ".", "ext">>)
OtherId == Str(<<"org", ".", "b", ".", "ext">>)
CustomId == Str(<<"com", ".", "new">>)
\* an override that extends the identifier of the main application
ExtendingId == MainId \o Str(<<".", "new">>)
TeamId == Str(<<"T">>)
OldTeamId == Str(<<"OLD">>)
SharedId == Str(<<"shared">>)

NoProv == [present |-> FALSE, app_id |-> <<>>]
Prov(app_id) == [present |-> TRUE, app_id |-> app_id]

ProvFiles ==
    { NoProv,
      Prov(Str(<<"T", ".", "com", ".", "a">>)),
      Prov(Str(<<"T", ".", "com", ".", "b">>)),
      Prov(Str(<<"T", ".", "com", ".", "*">>)) }

BundleIds == {None, Some(<<>>), Some(CustomId)}

Opts(prov, bid, enc, force) ==
    [ prov_file |-> prov, bundle_id |-> bid, team_id |-> TeamId,
      encode_ids |-> enc, force_original_id |-> force,
      patch_ids |-> FALSE, patch_debug |-> FALSE,
      common_name |-> Str(<<"iPhone", "Developer">>) ]

Group(id) == Str(<<"group", ".">>) \o id
Cloud(id) == Str(<<"iCloud", ".">>) \o id
Flag == <<Str(<<"true">>)>>

Ent0 == <<>>
Ent1 ==
    (APP_ID :> <<OldTeamId \o Dot \o MainId>>) @@ (TEAM_ID :> <<OldTeamId>>) @@
    (GROUPS :> <<Group(MainId)>>) @@ (GET_TASK_ALLOW :> Flag)
Ent2 ==
    (GROUPS :> <<Group(MainId), Group(SharedId)>>) @@
    (ICLOUD :> <<Cloud(MainId)>>) @@ (ICLOUD_ENV :> <<Str(<<"Production">>)>>)
Ent3 ==
    (ICLOUD_SERVICES :> <<Str(<<"CloudKit">>)>>) @@ (UBIQUITY :> <<Cloud(SharedId)>>)

EntProfiles == {Ent0, Ent1, Ent2, Ent3}

Trees == {f \in [1..MaxNodes -> 0..(MaxNodes - 1)] : \A n \in 1..MaxNodes : f[n] < n}
FlatTree == [n \in 1..MaxNodes |-> 0]
ChainTree == [n \in 1..MaxNodes |-> n - 1]

\* what does not depend on the inputs
InitSession ==
    /\ sc_info = {0}
    /\ pc = "resolve"
    /\ old_main_bundle_id = <<>>
    /\ main_bundle_id = <<>>
    /\ bundle_id_txt = <<>>
    /\ log = {}
    /\ components = <<>>
    /\ idx = 0
    /\ jobs = <<>>
    /\ keys = <<>>
    /\ proc = [n \in Nodes |-> NoProc]
    /\ mappings = <<>>
    /\ comp = <<>>
    /\ workdir = "none"
    /\ observed = {}
    /\ xcode = "closed"
    /\ elapsed = 0
    /\ fails_left = 0
    /\ retry = NoRetry

\* every bundle tree, two option sets
InitTrees ==
    /\ hang = 0
    /\ profiles = {}
    /\ parent \in Trees
    /\ kind \in [1..MaxNodes -> Kinds]
    /\ opts \in {Opts(NoProv, None, TRUE, FALSE),
                 Opts(Prov(Str(<<"T", ".", "com", ".", "a">>)), None, FALSE, FALSE)}
    /\ info_id = [n \in Nodes |-> IF n = 0 THEN MainId ELSE ExtId]
    /\ ents = [n \in Nodes |-> Ent1]

\* every option set, extensions below the main application
InitOpts ==
    /\ hang = 0
    /\ profiles = {}
    /\ parent = FlatTree
    /\ kind = [n \in 1..MaxNodes |-> "appex"]
    /\ opts \in {Opts(p, b, e, f) : p \in ProvFiles, b \in BundleIds,
                                    e \in BOOLEAN, f \in BOOLEAN}
    /\ info_id \in {f \in [Nodes -> {MainId, ExtId, OtherId}] :
                        /\ f[0] = MainId
                        /\ \A n \in 1..MaxNodes : f[n] # MainId}
    /\ ents = [n \in Nodes |-> Ent1]

\* every entitlement set, no provisioning profile
InitEnts ==
    /\ hang = 0
    /\ profiles = {}
    /\ parent \in {FlatTree, ChainTree}
    /\ kind = [n \in 1..MaxNodes |-> IF n = MaxNodes THEN "appex" ELSE "app"]
    /\ opts \in {Opts(NoProv, b, e, FALSE) : b \in {None, Some(CustomId)}, e \in BOOLEAN}
    /\ info_id = [n \in Nodes |-> IF n = 0 THEN MainId ELSE ExtId]
    /\ ents \in [Nodes -> EntProfiles]

\* the identifiers are patched into the binary and the manifest
InitPatch ==
    /\ hang = 0
    /\ profiles = {}
    /\ parent = FlatTree
    /\ kind = [n \in 1..MaxNodes |-> "appex"]
    /\ opts \in {[Opts(NoProv, b, e, f) EXCEPT !.patch_ids = TRUE] :
                    b \in {None, Some(CustomId), Some(ExtendingId)},
                    e \in BOOLEAN, f \in BOOLEAN}
    /\ info_id \in {f \in [Nodes -> {MainId, ExtId, OtherId}] :
                        /\ f[0] = MainId
                        /\ \A n \in 1..MaxNodes : f[n] = f[1] /\ f[n] # MainId}
    /\ ents = [n \in Nodes |-> Ent1]

\* every behaviour of the build primitive, under both kinds of certificate
InitRetry ==
    /\ hang \in 0..MaxFailures \cup {Forever}
    /\ profiles \in {{}, {Leftover}}
    /\ parent = FlatTree
    /\ kind = [n \in 1..MaxNodes |-> "appex"]
    /\ opts \in {[Opts(NoProv, None, FALSE, FALSE) EXCEPT !.common_name = n] :
                    n \in {Str(<<"iPhone", "Developer">>), Str(<<"iPhone", "Distribution">>)}}
    /\ info_id = [n \in Nodes |-> IF n = 0 THEN MainId ELSE ExtId]
    /\ ents = [n \in Nodes |-> Ent1]

Init ==
    /\ InitSession
    /\ InitTrees \/ InitOpts \/ InitEnts \/ InitPatch \/ InitRetry
    /\ original_id = info_id

(***************************************************************************)
(* sign(): identifier policy and discovery                                 *)
(***************************************************************************)
\* the computed identifier is recorded whatever the option
write_bundle_id_computed(old_bundle_id, bundle_id) == bundle_id

\* lines 225-229: the content of bundle_id.txt
write_bundle_id(old_bundle_id, bundle_id) ==
    IF opts.force_original_id THEN old_bundle_id ELSE bundle_id

\* lines 186-229
ResolveBundleId ==
    /\ pc = "resolve"
    /\ old_main_bundle_id' = info_id[0]
    /\ main_bundle_id' = resolve_main_bundle_id(opts, info_id[0])
    /\ log' = log \cup resolve_messages(opts)
    /\ bundle_id_txt' = write_bundle_id(info_id[0], resolve_main_bundle_id(opts, info_id[0]))
    /\ pc' = "discover"
    /\ UNCHANGED << original_id, oracle_vars, opts, parent, kind, info_id, ents, sc_info, components, idx,
                    jobs, keys, proc, mappings, comp, workdir, observed >>

\* lines 231-236 and 493-496
Discover ==
    /\ pc = "discover"
    /\ components' = component_list
    /\ mappings' = <<>>
    /\ workdir' = "present"
    /\ jobs' = <<>>
    /\ idx' = 1
    /\ keys' = <<>>
    /\ log' = log \cup {"Preparing component"}
    /\ pc' = "check"
    /\ UNCHANGED << original_id, oracle_vars, opts, parent, kind, info_id, ents, sc_info, old_main_bundle_id,
                    main_bundle_id, bundle_id_txt, proc, comp, observed >>


(***************************************************************************)
(* sign(): the loop over the components                                    *)
(***************************************************************************)
component == components[idx]

\* the exception leaves sign() through the TemporaryDirectory block
Raise ==
    /\ pc' = "failed"
    /\ workdir' = "deleted"

\* lines 499-504: a job outside the component is passed over
SkipJob ==
    /\ pc = "check"
    /\ keys # <<>>
    /\ ~relative_to(Path(Head(keys)), Path(component))
    /\ keys' = Tail(keys)
    /\ UNCHANGED << original_id, oracle_vars, opts, parent, kind, info_id, ents, sc_info, pc,
                    old_main_bundle_id, main_bundle_id, bundle_id_txt, log,
                    components, idx, jobs, proc, mappings, comp, workdir, observed >>

\* lines 505-509: wait for a job inside the component, check it, drop it
CheckJob ==
    /\ pc = "check"
    /\ keys # <<>>
    /\ relative_to(Path(Head(keys)), Path(component))
    /\ proc[Head(keys)].st = "exited"
    /\ ~popen_check(proc[Head(keys)].rc)
    /\ proc' = [proc EXCEPT ![Head(keys)].checked = TRUE]
    /\ observed' = IF proc[Head(keys)].rc # 0 THEN observed \cup {Head(keys)} ELSE observed
    /\ jobs' = jobs_pop(jobs, Head(keys))
    /\ keys' = Tail(keys)
    /\ UNCHANGED << original_id, oracle_vars, opts, parent, kind, info_id, ents, sc_info, pc,
                    old_main_bundle_id, main_bundle_id, bundle_id_txt, log,
                    components, idx, mappings, comp, workdir >>

\* lines 505-508: the job inside the component failed
CheckJobRaise ==
    /\ pc = "check"
    /\ keys # <<>>
    /\ relative_to(Path(Head(keys)), Path(component))
    /\ proc[Head(keys)].st = "exited"
    /\ popen_check(proc[Head(keys)].rc)
    /\ proc' = [proc EXCEPT ![Head(keys)].checked = TRUE]
    /\ observed' = IF proc[Head(keys)].rc # 0 THEN observed \cup {Head(keys)} ELSE observed
    /\ Raise
    /\ UNCHANGED << original_id, oracle_vars, opts, parent, kind, info_id, ents, sc_info,
                    old_main_bundle_id, main_bundle_id, bundle_id_txt, log,
                    components, idx, jobs, keys, mappings, comp >>

\* jobs[component] = codesign_async(...), then the next turn of the loop
Dispatch(c) ==
    /\ proc' = [proc EXCEPT ![c] = [st |-> "running", rc |-> 0, checked |-> FALSE,
                                    dispatched |-> @.dispatched + 1]]
    /\ jobs' = jobs_set(jobs, c)
    /\ idx' = idx + 1
    /\ keys' = jobs_set(jobs, c)
    /\ pc' = IF idx < Len(components) THEN "check" ELSE "drain"

\* lines 511-516 and 521
SignSecondary ==
    /\ pc = "check"
    /\ keys = <<>>
    /\ ~is_primary(component)
    /\ sc_info' = sc_info \ {component}
    /\ log' = log \cup {"Processing", "Signing with original entitlements"}
    /\ Dispatch(component)
    /\ UNCHANGED << original_id, oracle_vars, opts, parent, kind, info_id, ents, old_main_bundle_id,
                    main_bundle_id, bundle_id_txt, components, mappings, comp,
                    workdir, observed >>

\* lines 511-519, sign_primary with a provisioning profile
SignPrimaryProv ==
    /\ pc = "check"
    /\ keys = <<>>
    /\ is_primary(component)
    /\ opts.prov_file.present
    /\ sc_info' = sc_info \ {component}
    /\ LET old_bundle_id == info_id[component]
           bundle_id == component_bundle_id(old_bundle_id)
       IN  /\ comp' = comp @@ (component :>
                  [ old_bundle_id |-> old_bundle_id,
                    bundle_id |-> bundle_id,
                    remap_ids |-> <<>>,
                    stripped |-> <<>>,
                    rewritten |-> <<>>,
                    xcode_entitlements |-> <<>>,
                    patches |-> <<>>,
                    manifest |-> old_bundle_id,
                    embedded |-> [by |-> component, step |-> "prov_file"],
                    entitlements |-> task_allow(prov_branch_entitlements(bundle_id)) ])
           /\ info_id' = [info_id EXCEPT ![component] = final_info_id(old_bundle_id, bundle_id)]
           /\ log' = log \cup {"Processing"} \cup prov_branch_messages(bundle_id)
    /\ Dispatch(component)
    /\ UNCHANGED << original_id, oracle_vars, opts, parent, kind, ents, old_main_bundle_id, main_bundle_id,
                    bundle_id_txt, components, mappings, workdir, observed >>

\* lines 511-519, sign_primary through the template project, up to the
\* call of xcode_archive (lines 243-441)
SignPrimaryOracle ==
    /\ pc = "check"
    /\ keys = <<>>
    /\ is_primary(component)
    /\ ~opts.prov_file.present
    /\ sc_info' = sc_info \ {component}
    /\ \E teams \in Orders(old_team_ids(ents[component])) :
         LET old_bundle_id == info_id[component]
             bundle_id == component_bundle_id(old_bundle_id)
             o == oracle_prepare(component, bundle_id, teams)
         IN  /\ mappings' = o.m
             /\ comp' = comp @@ (component :>
                    [ old_bundle_id |-> old_bundle_id,
                      bundle_id |-> bundle_id,
                      remap_ids |-> [i \in 1..Len(remap_entitlements) |->
                                        remap_ids_of(prepared_entitlements(ents[component]),
                                                     remap_entitlements[i], bundle_id)],
                      stripped |-> Delete(ents[component], strip_list),
                      rewritten |-> o.x,
                      xcode_entitlements |-> patched_entitlements(o.x, o.patches),
                      patches |-> o.patches,
                      manifest |-> patched_info_id(old_bundle_id, o.patches),
                      embedded |-> [by |-> component, step |-> "none"],
                      entitlements |-> <<>> ])
             /\ info_id' = [info_id EXCEPT ![component] =
                                patched_info_id(old_bundle_id, o.patches)]
    /\ log' = log \cup {"Processing", "Applying patches..."}
    /\ profiles' = purge(get_prov_profiles)
    /\ xcode' = open_xcode(xcode)
    /\ elapsed' = 0
    /\ fails_left' = hang
    /\ retry' = start_retry("xcode_archive")
    /\ pc' = "archive"
    /\ UNCHANGED << original_id, hang, opts, parent, kind, ents, old_main_bundle_id, main_bundle_id,
                    bundle_id_txt, components, idx, jobs, keys, proc, workdir, observed >>

\* exec_retry, lines 82-89: the attempt ends in a TimeoutExpired and the
\* loop goes round
RetryTimeout ==
    /\ InRetry
    /\ within_deadline(elapsed)
    /\ fails_left # 0
    /\ retried("TimeoutExpired")
    /\ elapsed' = elapsed + TimeoutSeconds
    /\ fails_left' = IF fails_left = Forever THEN Forever ELSE fails_left - 1
    /\ retry' = attempt(retry)
    /\ log' = log \cup {"timed out, retrying"}
    /\ profiles' \in {profiles, profiles \cup {new_profile}}
    /\ UNCHANGED << original_id, xcode, hang, opts, parent, kind, info_id, ents, sc_info, pc,
                    old_main_bundle_id, main_bundle_id, bundle_id_txt, components,
                    idx, jobs, keys, proc, mappings, comp, workdir, observed >>

\* exec_retry, lines 85-89: the attempt ends in another failure, which is
\* raised through the finally clause of xcode_archive or xcode_export
OracleRaise ==
    /\ InRetry
    /\ within_deadline(elapsed)
    /\ ~retry.errored
    /\ LET again == retried("CalledProcessError")
       IN  /\ retry' = [attempt(retry) EXCEPT !.errored = TRUE,
                                              !.outcome = IF again THEN @ ELSE "error"]
           /\ xcode' = IF again THEN xcode ELSE finally_kill("error", xcode)
           /\ elapsed' = IF again THEN elapsed ELSE 0
           /\ fails_left' = IF again THEN fails_left ELSE 0
           /\ pc' = IF again THEN pc ELSE "failed"
           /\ workdir' = IF again THEN workdir ELSE "deleted"
    /\ UNCHANGED << original_id, hang, profiles, opts, parent, kind, info_id, ents, sc_info,
                    old_main_bundle_id, main_bundle_id, bundle_id_txt, log, components,
                    idx, jobs, keys, proc, mappings, comp, observed >>

\* exec_retry, lines 82 and 91: the deadline has passed
RetryDeadline ==
    /\ InRetry
    /\ ~within_deadline(elapsed)
    /\ retry' = [retry EXCEPT !.outcome = "deadline"]
    /\ log' = log \cup {"timed out too many times"}
    /\ xcode' = finally_kill("deadline", xcode)
    /\ elapsed' = 0
    /\ fails_left' = 0
    /\ Raise
    /\ UNCHANGED << original_id, hang, profiles, opts, parent, kind, info_id, ents, sc_info,
                    old_main_bundle_id, main_bundle_id, bundle_id_txt, components,
                    idx, jobs, keys, proc, mappings, comp, observed >>

\* xcode_archive returns under a distribution certificate: lines 444-446
ArchiveDone ==
    /\ pc = "archive"
    /\ within_deadline(elapsed)
    /\ fails_left = 0
    /\ is_distribution
    /\ log' = log \cup {"Exporting app..."}
    /\ profiles' = purge(get_prov_profiles \cup {new_profile})
    /\ xcode' = open_xcode(finally_kill("result", xcode))
    /\ elapsed' = 0
    /\ fails_left' = hang
    /\ retry' = start_retry("xcode_export")
    /\ pc' = "export"
    /\ UNCHANGED << original_id, hang, opts, parent, kind, info_id, ents, sc_info,
                    old_main_bundle_id, main_bundle_id, bundle_id_txt, components,
                    idx, jobs, keys, proc, mappings, comp, workdir, observed >>

\* the last build step returns: lines 447-491
OracleDone ==
    /\ InRetry
    /\ within_deadline(elapsed)
    /\ fails_left = 0
    /\ pc = "archive" => ~is_distribution
    /\ \E p \in get_prov_profiles \cup {new_profile} :
         comp' = [comp EXCEPT ![component].embedded = p,
                              ![component].entitlements =
                                  task_allow(built_entitlements(comp[component].xcode_entitlements,
                                                                comp[component].bundle_id))]
    /\ profiles' = {}
    /\ info_id' = [info_id EXCEPT ![component] =
                       final_info_id(comp[component].old_bundle_id, comp[component].bundle_id)]
    /\ retry' = [attempt(retry) EXCEPT !.outcome = "result"]
    /\ xcode' = finally_kill("result", xcode)
    /\ elapsed' = 0
    /\ fails_left' = 0
    /\ Dispatch(component)
    /\ UNCHANGED << original_id, hang, opts, parent, kind, ents, sc_info, old_main_bundle_id,
                    main_bundle_id, bundle_id_txt, log, components, mappings,
                    workdir, observed >>

(***************************************************************************)
(* sign(): the final drain, lines 523-526                                  *)
(***************************************************************************)
DrainJob ==
    /\ pc = "drain"
    /\ keys # <<>>
    /\ proc[Head(keys)].st = "exited"
    /\ ~popen_check(proc[Head(keys)].rc)
    /\ proc' = [proc EXCEPT ![Head(keys)].checked = TRUE]
    /\ observed' = IF proc[Head(keys)].rc # 0 THEN observed \cup {Head(keys)} ELSE observed
    /\ keys' = Tail(keys)
    /\ UNCHANGED << original_id, oracle_vars, opts, parent, kind, info_id, ents, sc_info, pc,
                    old_main_bundle_id, main_bundle_id, bundle_id_txt, log,
                    components, idx, jobs, mappings, comp, workdir >>

DrainJobRaise ==
    /\ pc = "drain"
    /\ keys # <<>>
    /\ proc[Head(keys)].st = "exited"
    /\ popen_check(proc[Head(keys)].rc)
    /\ proc' = [proc EXCEPT ![Head(keys)].checked = TRUE]
    /\ observed' = IF proc[Head(keys)].rc # 0 THEN observed \cup {Head(keys)} ELSE observed
    /\ Raise
    /\ UNCHANGED << original_id, oracle_vars, opts, parent, kind, info_id, ents, sc_info,
                    old_main_bundle_id, main_bundle_id, bundle_id_txt, log,
                    components, idx, jobs, keys, mappings, comp >>

\* sign() returns
Finish ==
    /\ pc = "drain"
    /\ keys = <<>>
    /\ pc' = "done"
    /\ workdir' = "deleted"
    /\ UNCHANGED << original_id, oracle_vars, opts, parent, kind, info_id, ents, sc_info,
                    old_main_bundle_id, main_bundle_id, bundle_id_txt, log,
                    components, idx, jobs, keys, proc, mappings, comp, observed >>

(***************************************************************************)
(* The codesign processes                                                  *)
(***************************************************************************)
JobExit(c, returncode) ==
    /\ proc[c].st = "running"
    /\ proc' = [proc EXCEPT ![c].st = "exited", ![c].rc = returncode]
    /\ UNCHANGED << original_id, oracle_vars, opts, parent, kind, info_id, ents, sc_info, pc,
                    old_main_bundle_id, main_bundle_id, bundle_id_txt, log,
                    components, idx, jobs, keys, mappings, comp, workdir, observed >>

Next ==
    \/ ResolveBundleId
    \/ Discover
    \/ SkipJob
    \/ CheckJob
    \/ CheckJobRaise
    \/ SignSecondary
    \/ SignPrimaryProv
    \/ SignPrimaryOracle
    \/ RetryTimeout
    \/ OracleRaise
    \/ RetryDeadline
    \/ ArchiveDone
    \/ OracleDone
    \/ DrainJob
    \/ DrainJobRaise
    \/ Finish
    \/ \E c \in Nodes, returncode \in ExitCodes : JobExit(c, returncode)

Spec == Init /\ [][Next]_vars

\* an attempt of a build step ends: run_process returns or raises, after
\* timeout=20 at the latest, and the loop condition is then tested
RetryStep ==
    RetryTimeout \/ OracleRaise \/ RetryDeadline \/ ArchiveDone \/ OracleDone

FairSpec == Init /\ [][Next]_vars /\ WF_vars(RetryStep)


(***************************************************************************)
(* Properties                                                              *)
(***************************************************************************)
RECURSIVE Encloses(_, _)
\* component a is n or contains n
Encloses(a, n) ==
    IF n = a THEN TRUE
    ELSE IF n = 0 THEN FALSE
    ELSE Encloses(a, parent[n])

Inside(c1, c2) == c1 # c2 /\ Encloses(c2, c1)

Dispatched(c) == proc[c].st = "none" /\ proc'[c].st = "running"

Position(c) == CHOOSE i \in 1..Len(components) : components[i] = c

Discovered == pc \notin {"resolve", "discover"}

\* C1: whenever a component's job is dispatched, the job of every component
\* nested beneath it has already exited.
C1_NestedJobsExitBeforeDispatch ==
    [][\A c2 \in Nodes : Dispatched(c2) =>
          \A c1 \in Nodes : Inside(c1, c2) => proc[c1].st = "exited"]_vars

\* C2: the component list holds every component before each component that
\* contains it, and the main application once, as its last element.
C2_ContainedBeforeContainer ==
    Discovered =>
        /\ \A c1, c2 \in Nodes : Inside(c1, c2) =>
              /\ Contains(components, c1) /\ Contains(components, c2)
              /\ Position(c1) < Position(c2)
        /\ components[Len(components)] = 0
        /\ Cardinality({i \in 1..Len(components) : components[i] = 0}) = 1


AtProcess == pc = "check" /\ keys = <<>>

\* C3: when a component is about to be processed, no job of the job set lies
\* inside it; every job dispatched earlier inside it has exited, has been
\* checked and has left the job set.
C3_NoContainedJobAtDispatch ==
    AtProcess =>
        \A c \in Nodes : Encloses(component, c) =>
            /\ ~Contains(jobs, c)
            /\ proc[c].dispatched > 0 =>
                  proc[c].st = "exited" /\ proc[c].checked

C3_Witness ==
    /\ AtProcess
    /\ \E c \in Nodes : Inside(c, component) /\ proc[c].dispatched > 0 /\ proc[c].checked

\* C4: when sign() has returned normally every component was dispatched
\* exactly once and its job has exited with status 0 and has been checked.
C4_NormalReturnMeansAllSigned ==
    pc = "done" =>
        \A c \in Nodes :
            /\ proc[c].dispatched = 1
            /\ proc[c].st = "exited"
            /\ proc[c].rc = 0
            /\ proc[c].checked

C4_Witness ==
    /\ pc = "done"
    /\ jobs = <<0>>
    /\ \E c \in Nodes : c # 0 /\ proc[c].checked /\ KindOf(c) = "framework"

\* C5: once a non-zero exit status has been read the session has failed, and
\* a failed session stays failed, processes and dispatches nothing more.
C5_FailureAborts ==
    /\ [](observed # {} => pc = "failed")
    /\ [][pc = "failed" =>
            /\ pc' = "failed"
            /\ comp' = comp
            /\ idx' = idx
            /\ \A c \in Nodes : proc'[c].dispatched = proc[c].dispatched]_vars

C5_Witness ==
    /\ observed # {}
    /\ pc = "failed"
    /\ \E c \in Nodes : proc[c].dispatched = 0
    /\ \E c \in Nodes : proc[c].st = "running"

\* the rewritten list and the patches of component c agree with table m
AgreesWith(c, m) ==
    \A i \in 1..Len(remap_entitlements) :
        LET r == remap_entitlements[i]
            ids == comp[c].remap_ids[i]
        IN  ids # <<>> =>
              /\ Len(comp[c].rewritten[r.entitlement]) = Len(ids)
              /\ \A j \in 1..Len(ids) :
                    /\ ids[j] \in DOMAIN m
                    /\ comp[c].rewritten[r.entitlement][j] = r.prefix \o m[ids[j]]
                    /\ dict_has(comp[c].patches, r.prefix \o ids[j])
                    /\ dict_get(comp[c].patches, r.prefix \o ids[j]) = r.prefix \o m[ids[j]]

ViaOracle(c) == c \in DOMAIN comp /\ ~opts.prov_file.present

Resolved == pc # "resolve"

\* C8 as stated: without an override the main bundle identifier is the encoded
\* original when encoding is on and the original when it is off, whether or
\* not a provisioning profile is given; an override is used verbatim.
C8_Original ==
    Resolved =>
        /\ (~opts.bundle_id.given /\ opts.encode_ids) =>
              main_bundle_id = gen_id(MainId, MainId \o TeamId)
        /\ (~opts.bundle_id.given /\ ~opts.encode_ids) => main_bundle_id = MainId
        /\ truthy(opts.bundle_id) => main_bundle_id = opts.bundle_id.value

\* C8: without an override the main bundle identifier is the encoded original
\* when encoding is on and no provisioning profile is given, and the original
\* when encoding is off or a provisioning profile is given; an override is
\* used verbatim.
C8_MainBundleIdPolicy ==
    Resolved =>
        /\ (~opts.bundle_id.given /\ opts.encode_ids /\ ~opts.prov_file.present) =>
              main_bundle_id = gen_id(MainId, MainId \o TeamId)
        /\ (~opts.bundle_id.given /\ (~opts.encode_ids \/ opts.prov_file.present)) =>
              main_bundle_id = MainId
        /\ truthy(opts.bundle_id) => main_bundle_id = opts.bundle_id.value

C8_Witness ==
    /\ Resolved
    /\ ~opts.bundle_id.given /\ opts.encode_ids /\ opts.prov_file.present
    /\ main_bundle_id = MainId

FromCredential == opts.prov_file.present /\ opts.bundle_id = Some(<<>>)

\* what follows the first dot of s
AfterFirstDot(s) ==
    LET i == CHOOSE k \in 1..Len(s) : s[k] = L(".") /\ \A j \in 1..(k - 1) : s[j] # L(".")
    IN  [j \in 1..(Len(s) - i) |-> s[i + j]]

Wildcard == Contains(AfterFirstDot(opts.prov_file.app_id), Star)

\* C9: with the identifier taken from the provisioning profile, the main bundle
\* identifier is what follows the first dot of the profile's application id,
\* or the original identifier when that holds a wildcard; the wildcard is
\* logged, and a session with a wildcard fails only on a signing failure.
C9_CredentialIdentifier ==
    (Resolved /\ FromCredential) =>
        /\ ~Wildcard => main_bundle_id = AfterFirstDot(opts.prov_file.app_id)
        /\ Wildcard =>
              /\ main_bundle_id = MainId
              /\ "Provisioning profile is wildcard, using original bundle id" \in log
              /\ pc = "failed" => observed # {}

C9_Witness ==
    /\ FromCredential /\ Wildcard
    /\ pc = "done"
    /\ main_bundle_id = MainId

\* C10: the identifier computed for a primary component is the main bundle
\* identifier followed by what follows the original main bundle identifier in
\* the component's original identifier; for the main application it is the
\* main bundle identifier.
C10_SuffixPreserved ==
    \A c \in DOMAIN comp :
        /\ \E n \in 0..Len(comp[c].old_bundle_id) :
              /\ comp[c].old_bundle_id = MainId \o Drop(comp[c].old_bundle_id, n)
              /\ comp[c].bundle_id = main_bundle_id \o Drop(comp[c].old_bundle_id, n)
        /\ c = 0 => comp[c].bundle_id = main_bundle_id

\* C11: when the signing job of a primary component is dispatched, the
\* CFBundleIdentifier of its Info.plist is the one it was uploaded with if
\* force_original_id is set, and otherwise the main identifier of the
\* session followed by the component's own suffix
C11_ManifestAtDispatch ==
    [][\A c \in Nodes :
          Dispatched(c) /\ is_primary(c) =>
              info_id'[c] = IF opts.force_original_id
                            THEN original_id[c]
                            ELSE main_bundle_id \o Drop(original_id[c], Len(original_id[0]))]_vars

\* a dispatched component whose manifest the patches had rewritten and
\* which carries its uploaded identifier again
C11_Witness ==
    \E c \in DOMAIN comp :
        /\ proc[c].dispatched > 0
        /\ opts.force_original_id /\ opts.patch_ids /\ ~opts.prov_file.present
        /\ comp[c].manifest # original_id[c]
        /\ comp[c].manifest = comp[c].bundle_id
        /\ info_id[c] = original_id[c]

\* C12: when sign() returns normally, bundle_id.txt holds the
\* CFBundleIdentifier that the Info.plist of the main application ends with
C12_RecordedIdIsFinalId ==
    pc = "done" => bundle_id_txt = info_id[0]

\* a session that ended well, kept the uploaded identifier in the manifest
\* although it had computed another one, and recorded the uploaded one
C12_Witness ==
    /\ pc = "done"
    /\ opts.force_original_id
    /\ main_bundle_id # original_id[0]
    /\ bundle_id_txt = original_id[0]
    /\ proc[0].checked

\* C13: with a build step that times out hang times and then succeeds,
\* each time-out lasting TimeoutSeconds, exec_retry returns the result
\* only if hang * TimeoutSeconds is below Deadline and gives up with
\* "timed out too many times" only if it is not; no attempt starts at or
\* after the deadline, and an outcome is always preceded by an attempt
C13_RetryOutcome ==
    /\ retry.outcome = "result" =>
           hang # Forever /\ hang * TimeoutSeconds < Deadline
    /\ retry.outcome = "deadline" =>
           /\ hang = Forever \/ hang * TimeoutSeconds >= Deadline
           /\ "timed out too many times" \in log
    /\ ~retry.late
    /\ retry.outcome # "none" => retry.attempted

\* the result is returned by the last attempt the deadline allows
C13_Witness ==
    /\ retry.outcome = "result"
    /\ hang > 0
    /\ hang * TimeoutSeconds < Deadline
    /\ (hang + 1) * TimeoutSeconds >= Deadline

\* C14: a failure of the build or export step that no time-out caused is
\* raised at once: sign() has failed, the temporary directory is gone, and
\* no signing job is started afterwards
C14_OtherFailuresAreFatal ==
    /\ [](retry.errored =>
             retry.outcome = "error" /\ pc = "failed" /\ workdir = "deleted")
    /\ [][retry.errored =>
             /\ jobs' = jobs
             /\ \A c \in Nodes : proc'[c].dispatched = proc[c].dispatched]_vars

\* the build failed after a time-out had been retried, with components
\* still to be signed
C14_Witness ==
    /\ retry.errored
    /\ pc = "failed"
    /\ "timed out, retrying" \in log
    /\ idx < Len(components)
    /\ jobs # <<>>

\* C15: the entitlements left by the deletions of lines 300-333 hold no
\* key of the strip list, hold every other key of the component's
\* entitlements with its value, and are left as they are by deleting the
\* strip list once more
C15_StrippingIdempotent ==
    \A c \in Nodes : ViaOracle(c) =>
        LET once == comp[c].stripped
        IN  /\ Delete(once, strip_list) = once
            /\ (DOMAIN once) \cap strip_list = {}
            /\ DOMAIN once = (DOMAIN ents[c]) \ strip_list
            /\ \A k \in DOMAIN once : once[k] = ents[c][k]

\* entitlements of which some keys were deleted and some were kept
C15_Witness ==
    \E c \in Nodes :
        /\ ViaOracle(c)
        /\ Cardinality((DOMAIN ents[c]) \cap strip_list) > 1
        /\ DOMAIN comp[c].stripped # {}

\* the application identifier of the credential is the team identifier,
\* a dot and the identifier computed for c, or holds a wildcard
CredentialFits(c) ==
    \/ opts.prov_file.app_id =
           opts.team_id \o Dot \o main_bundle_id \o Drop(original_id[c], Len(original_id[0]))
    \/ \E i \in 1..Len(opts.prov_file.app_id) : opts.prov_file.app_id[i] = L("*")

ViaCredential(c) == c \in DOMAIN comp /\ opts.prov_file.present

\* C16: a component signed with a supplied credential has its job
\* dispatched in both cases; if the credential does not fit, a warning is
\* logged and application-identifier stays the credential's, and if it
\* fits, application-identifier is the team identifier, a dot and the
\* computed identifier
C16_MismatchIsNotFatal ==
    \A c \in Nodes : ViaCredential(c) =>
        /\ proc[c].dispatched > 0
        /\ pc = "failed" => observed # {}
        /\ IF CredentialFits(c)
           THEN comp[c].entitlements[APP_ID] =
                   << opts.team_id \o Dot \o main_bundle_id
                         \o Drop(original_id[c], Len(original_id[0])) >>
           ELSE /\ comp[c].entitlements[APP_ID] = << opts.prov_file.app_id >>
                /\ "WARNING: Provisioning profile's app id does not match component's app id"
                       \in log

\* a session that ended well with a component whose credential did not
\* fit and one whose credential did
C16_Witness ==
    /\ pc = "done"
    /\ \E c \in Nodes : ViaCredential(c) /\ ~CredentialFits(c) /\ proc[c].checked
    /\ \E c \in Nodes : ViaCredential(c) /\ CredentialFits(c)

\* the coordinating thread can take a step without waiting for a process:
\* outside the loops, in the loop of lines 499-509 unless the job at hand
\* is waited for, in the drain unless the job at hand still runs, and in
\* exec_retry once the loop condition fails
CanStep ==
    \/ pc \in {"resolve", "discover"}
    \/ /\ pc = "check"
       /\ \/ keys = <<>>
          \/ ~relative_to(Path(Head(keys)), Path(component))
          \/ proc[Head(keys)].st = "exited"
    \/ pc = "drain" /\ (keys = <<>> \/ proc[Head(keys)].st = "exited")
    \/ InRetry /\ ~within_deadline(elapsed)

\* sign() has not ended and its thread waits for a process
Blocked == pc \notin {"done", "failed"} /\ ~CanStep

Outstanding == \E c \in Nodes : proc[c].st = "running"

\* pipe.wait() of line 506 on a job inside the component at hand
WaitsOnNested ==
    /\ pc = "check" /\ keys # <<>>
    /\ Inside(Head(keys), component)
    /\ proc[Head(keys)].st = "running"

\* pipe.wait() of line 525
WaitsAtDrain == pc = "drain" /\ keys # <<>> /\ proc[Head(keys)].st = "running"

\* the build or export of a primary component without a credential runs
WaitsOnBuild ==
    /\ pc \in {"archive", "export"}
    /\ elapsed < Deadline
    /\ xcode = "open"
    /\ KindOf(component) \in {"app", "appex"}
    /\ ~opts.prov_file.present

\* C17 as stated: with signing jobs running, the coordinating thread waits
\* only for a job nested in the component it is about to dispatch, or at
\* the final drain
C17_Original ==
    Outstanding /\ Blocked => WaitsOnNested \/ WaitsAtDrain

\* C17: with signing jobs running, the coordinating thread waits only for
\* a job nested in the component it is about to dispatch, at the final
\* drain, or for the build or export step of a primary component that has
\* no credential, retries included
C17_SuspensionPoints ==
    Outstanding /\ Blocked => WaitsOnNested \/ WaitsAtDrain \/ WaitsOnBuild

\* a build step is retried while the job of a sibling runs
C17_Witness ==
    /\ Outstanding /\ Blocked /\ WaitsOnBuild
    /\ retry.attempted
    /\ elapsed > 0

\* C18: a job that does not lie inside the component at hand stays in the
\* job set and is not checked while that component is prepared, whether
\* it has exited or not, and the loop of lines 499-509 passes it over
\* without waiting
C18_OtherJobsUntouched ==
    /\ [][\A j \in Nodes :
            pc = "check" /\ Contains(jobs, j) /\ ~Inside(j, component) =>
                /\ Contains(jobs', j)
                /\ proc'[j].checked = proc[j].checked]_vars
    /\ [](pc = "check" /\ keys # <<>> /\ ~Inside(Head(keys), component) => CanStep)

\* X.app is about to be processed while the job of X.appex next to it,
\* passed over by the loop, is running
C18_Witness ==
    /\ pc = "check" /\ keys = <<>>
    /\ \E j \in Nodes :
          /\ Contains(jobs, j) /\ proc[j].st = "running" /\ ~proc[j].checked
          /\ ~Inside(j, component)
          /\ parent[j] = parent[component]
          /\ relative_to_startswith(Path(j), Path(component))

\* the build of component c through the template project has returned
OracleFinished(c) == ViaOracle(c) /\ comp[c].entitlements # <<>>

\* C19: the profile embedded in a component by the build through the
\* template project was left by a build or export step of that same
\* component, by the export step under a distribution certificate, and
\* when the build of a component returns no profile is left in the
\* well-known location
C19_CredentialProvenance ==
    /\ [](\A c \in Nodes : OracleFinished(c) =>
             /\ comp[c].embedded.by = c
             /\ comp[c].embedded.step \in {"archive", "export"}
             /\ is_distribution => comp[c].embedded.step = "export")
    /\ [][\A c \in Nodes :
            ~OracleFinished(c) /\ c \in DOMAIN comp' /\ comp'[c].entitlements # <<>> =>
                profiles' = {}]_vars

\* two components have their profiles, the later one after retried builds
C19_Witness ==
    /\ \E c1, c2 \in Nodes : c1 # c2 /\ OracleFinished(c1) /\ OracleFinished(c2)
    /\ "timed out, retrying" \in log
    /\ is_distribution
    /\ profiles = {}

\* exec_retry is left by this step
RetryLeft == InRetry /\ pc' # pc

\* C20: every call of exec_retry ends; it ends with the result of the
\* first attempt that succeeds, or with the first failure no time-out
\* caused, or, once Deadline seconds have passed, with the error that
\* names the operation; the authoring tool is open during the call and
\* closed whenever no call is running
C20_RetryTerminates ==
    /\ (pc = "archive") ~> (pc # "archive")
    /\ (pc = "export") ~> (pc # "export")
    /\ [](xcode = IF InRetry THEN "open" ELSE "closed")
    /\ [][RetryLeft =>
            \/ /\ pc' # "failed"
               /\ fails_left = 0 /\ elapsed < Deadline /\ ~retry.errored
               /\ pc' # "export" => retry'.outcome = "result"
            \/ /\ pc' = "failed" /\ retry'.outcome = "error"
               /\ retry'.errored /\ ~retry.errored /\ elapsed < Deadline
            \/ /\ pc' = "failed" /\ retry'.outcome = "deadline"
               /\ elapsed >= Deadline
               /\ "timed out too many times" \in log']_vars

\* a build step that never succeeds was given up at the deadline, and the
\* tool is closed
C20_Witness ==
    /\ hang = Forever
    /\ retry.outcome = "deadline"
    /\ retry.attempted
    /\ pc = "failed"
    /\ xcode = "closed"

\* C21: once the temporary directory of sign() is deleted, no signing job
\* that was dispatched is still running
C21_WorkdirOutlivesJobs ==
    workdir = "deleted" => \A c \in Nodes : proc[c].st # "running"

\* the pairs whose original string begins s
matching(s, patches) ==
    {i \in 1..Len(patches) :
        /\ patches[i][1] # <<>>
        /\ Len(patches[i][1]) <= Len(s)
        /\ SubSeq(s, 1, Len(patches[i][1])) = patches[i][1]}

RECURSIVE replace_at_once(_, _)
\* one pass over s, left to right: where the original string of a pair
\* begins, the first such pair in collection order is applied and the
\* pass goes on behind the original string
replace_at_once(s, patches) ==
    IF s = <<>> THEN <<>>
    ELSE IF matching(s, patches) = {} THEN <<Head(s)>> \o replace_at_once(Tail(s), patches)
    ELSE LET i == CHOOSE x \in matching(s, patches) : \A y \in matching(s, patches) : x <= y
         IN  patches[i][2] \o replace_at_once(Drop(s, Len(patches[i][1])), patches)

\* C22: the entitlements handed to the template project, and with
\* patch_ids the CFBundleIdentifier of Info.plist, are what one pass that
\* replaces every original string of the patches at once makes of the
\* content before the patches
C22_PatchesAsOnePass ==
    \A c \in Nodes : ViaOracle(c) =>
        /\ \A k \in DOMAIN comp[c].rewritten :
              \A i \in 1..Len(comp[c].rewritten[k]) :
                 comp[c].xcode_entitlements[k][i] =
                    replace_at_once(comp[c].rewritten[k][i], comp[c].patches)
        /\ opts.patch_ids =>
              comp[c].manifest = replace_at_once(original_id[c], comp[c].patches)

=========================================================================
